---- MODULE Spec2Model ----
(***************************************************************************)
(* Model of prepare-data.py: a single-pass cleaning pipeline over one      *)
(* in-memory table (df) of grading records.  Every "# %%" cell of the      *)
(* script is one action; pc is the cell that runs next.                    *)
(*                                                                         *)
(* A table is a sequence of rows (row order is observable: cumcount,       *)
(* drop_duplicates and the stable sort depend on it).  A row is a record   *)
(* whose fields carry the column names of the script.  The four columns    *)
(* the script only passes through (BEDOMMELSE, SKALA, UDPROVNING, CENSUR)  *)
(* are represented by the one column BEDOMMELSE.                           *)
(*                                                                         *)
(* A text is a sequence of one-character strings.  A missing KURSTXT       *)
(* (NaN after read_csv) is the one-element sequence NaN.                   *)
(* Course codes and study numbers are small integers standing for strings  *)
(* whose lexicographic order is the integer order.                         *)
(***************************************************************************)
EXTENDS Integers, Sequences, FiniteSets, TLC

VARIABLES
    pc,      \* the cell that runs next ("done": written, "aborted": exception)
    df,      \* the table
    prev,    \* history: df as it was before the cell that ran last
    output,  \* the rows written to OUTPUT_PATH
    arg,     \* normalize_text on its own: the argument of the last call
    ret,     \* its result
    calls    \* and the number of calls made

vars == <<pc, df, prev, output, arg, ret, calls>>

(* ------------------------------ bounds --------------------------------- *)
\* longest input table (rows of the CSV file)
MaxRows == 3
\* longest string handed to normalize_text on its own
MaxLen == 3

(* ------------------------- program constants --------------------------- *)
TargetEducation == "Softwareteknologi, ing.prof.bach."
OtherEducation == "Other"
\* course_counts > 2
MinCourses == 2
\* month <= 4 or month >= 10 is "Fall"
FallLastMonth == 4
FallFirstMonth == 10
\* pd.Timestamp(year, month=6, day=1) / (year, month=12, day=1)
SpringEndMonth == 6
FallEndMonth == 12
EndDay == 1

NaN == <<"NaN">>
IsNull(text) == text = NaN

Marker == <<"i", "n", "s", "t", "i", "t", "u", "t">>

(* ------------------------------ strings -------------------------------- *)
\* str.upper() on one character
UpperChar(c) ==
    CASE c = "i" -> "I"
      [] c = "n" -> "N"
      [] c = "s" -> "S"
      [] c = "t" -> "T"
      [] c = "u" -> "U"
      [] c = "d" -> "D"
      [] c = "b" -> "B"
      [] c = "i_acute" -> "I_acute"
      [] OTHER -> c

\* unidecode() on one character.  "i_acute" is the letter i with an acute
\* accent, "sup2" the superscript two (category No: not matched by \d,
\* transliterated to "2")
UnidecodeChar(c) ==
    CASE c = "i_acute" -> <<"i">>
      [] c = "I_acute" -> <<"I">>
      [] c = "sup2" -> <<"2">>
      [] OTHER -> <<c>>

\* a character matched by \d
IsDigit(c) == c \in {"0", "1", "2"}

\* a character removed by str.strip()
IsSpace(c) == c = " "

Upper(text) == [i \in 1..Len(text) |-> UpperChar(text[i])]

RECURSIVE StripLeadingDigits(_)
\* re.sub(r"^\d+", "", text)
StripLeadingDigits(text) ==
    IF text /= <<>> /\ IsDigit(Head(text))
    THEN StripLeadingDigits(Tail(text))
    ELSE text

RECURSIVE Unidecode(_)
Unidecode(text) ==
    IF text = <<>> THEN <<>>
    ELSE UnidecodeChar(Head(text)) \o Unidecode(Tail(text))

RECURSIVE LStrip(_)
LStrip(text) ==
    IF text /= <<>> /\ IsSpace(Head(text)) THEN LStrip(Tail(text)) ELSE text

RECURSIVE RStrip(_)
RStrip(text) ==
    IF text /= <<>> /\ IsSpace(text[Len(text)])
    THEN RStrip(SubSeq(text, 1, Len(text) - 1))
    ELSE text

Strip(text) == RStrip(LStrip(text))

normalize_text(text) == Strip(Unidecode(StripLeadingDigits(Upper(text))))

\* pat in x  (substring test)
Contains(x, pat) ==
    \E i \in 0..(Len(x) - Len(pat)) : SubSeq(x, i + 1, i + Len(pat)) = pat

\* .str.contains("institut", regex=False, na=False, case=False):
\* upper_pat in x.upper(), and na=False for a missing value
str_contains(text) ==
    IF IsNull(text) THEN FALSE ELSE Contains(Upper(text), Upper(Marker))

(* ------------------------------- tables -------------------------------- *)
Indices(t) == DOMAIN t

RECURSIVE SelectRows(_, _)
\* df[mask]: the rows whose index is in keep, in their order
SelectRows(t, keep) ==
    IF t = <<>> THEN <<>>
    ELSE LET n == Len(t)
             front == SelectRows(SubSeq(t, 1, n - 1), keep)
         IN  IF n \in keep THEN Append(front, t[n]) ELSE front

\* df.drop(columns=[EDUCATION])
DropEducation(r) ==
    [STUDIENR |-> r.STUDIENR, KURSKODE |-> r.KURSKODE, KURSTXT |-> r.KURSTXT,
     BEDOMMELSE |-> r.BEDOMMELSE, ECTS |-> r.ECTS,
     BEDOMMELSESDATO |-> r.BEDOMMELSESDATO]

\* df = df[df[EDUCATION] == "Softwareteknologi, ing.prof.bach."]; drop column
CohortRows(t) ==
    LET kept == SelectRows(t, {i \in Indices(t) : t[i].UDDANNELSE = TargetEducation})
    IN  [i \in 1..Len(kept) |-> DropEducation(kept[i])]

\* mutant of course_counts: counts the rows of the table, not of the student
course_counts_table(t, s) == Len(t)

\* df[STUDY_NUMBER].value_counts()
course_counts(t, s) == Cardinality({i \in Indices(t) : t[i].STUDIENR = s})

valid_study_numbers(t) ==
    {s \in {t[i].STUDIENR : i \in Indices(t)} : course_counts(t, s) > MinCourses}

\* df = df[df[STUDY_NUMBER].isin(valid_study_numbers)]
ActivityRows(t) ==
    SelectRows(t, {i \in Indices(t) : t[i].STUDIENR \in valid_study_numbers(t)})

institute_study_numbers(t) ==
    {t[i].STUDIENR : i \in {j \in Indices(t) : str_contains(t[j].KURSTXT)}}

\* df = df[~df[STUDY_NUMBER].isin(institute_study_numbers)]
InstituteRows(t) ==
    SelectRows(t, {i \in Indices(t) : t[i].STUDIENR \notin institute_study_numbers(t)})

(* --------------------------- canonical codes --------------------------- *)
GroupKey(r) == <<r.KURSTXT, r.ECTS>>

\* the rows of one (COURSE_TEXT, ECTS) group
GroupOf(t, k) == {i \in Indices(t) : GroupKey(t[i]) = k}

GroupCodes(t, k) == {t[i].KURSKODE : i \in GroupOf(t, k)}

\* s.value_counts()
CodeCount(t, k, c) == Cardinality({i \in GroupOf(t, k) : t[i].KURSKODE = c})

\* counts = grouped.nunique(); duplicate_keys = counts[counts > 1].index
duplicate_keys(t) ==
    {k \in {GroupKey(t[i]) : i \in Indices(t)} : Cardinality(GroupCodes(t, k)) > 1}

\* mutant of ModalCodes: idxmin, a code of the lowest count
ModalCodes_idxmin(t, k) ==
    {c \in GroupCodes(t, k) :
        \A d \in GroupCodes(t, k) : CodeCount(t, k, c) <= CodeCount(t, k, d)}

\* the values s.value_counts().idxmax() can return: a code of the highest
\* count; which one of several is left to the sort inside value_counts
ModalCodes(t, k) ==
    {c \in GroupCodes(t, k) :
        \A d \in GroupCodes(t, k) : CodeCount(t, k, d) <= CodeCount(t, k, c)}

\* mapping.get(k, num)
Recode(t, mapping) ==
    [i \in 1..Len(t) |->
        IF GroupKey(t[i]) \in DOMAIN mapping
        THEN [t[i] EXCEPT !.KURSKODE = mapping[GroupKey(t[i])]]
        ELSE t[i]]

\* mutant of drop_duplicates: nothing is dropped
drop_duplicates_none(t) == t

\* df.drop_duplicates(): the first of every set of equal rows is kept
drop_duplicates(t) ==
    SelectRows(t, {i \in Indices(t) : \A j \in 1..(i - 1) : t[j] /= t[i]})

(* ------------------------- dates and semesters ------------------------- *)
\* pd.to_datetime(format="%d/%m/%Y") then strftime("%Y-%m-%d"):
\* <<day, month, year>> becomes <<year, month, day>>
ToIso(date) == <<date[3], date[2], date[1]>>

\* mutant of get_semester: month < 4 in place of month <= 4
get_semester_lt(iso) ==
    <<IF iso[2] < FallLastMonth \/ iso[2] >= FallFirstMonth THEN "Fall" ELSE "Spring",
      iso[1]>>

\* get_semester: <<season, year>> stands for the string "<season> <year>"
get_semester(iso) ==
    <<IF iso[2] <= FallLastMonth \/ iso[2] >= FallFirstMonth THEN "Fall" ELSE "Spring",
      iso[1]>>

\* r with the column f added (or overwritten) with value v
WithColumn(r, f, v) == [x \in (DOMAIN r) \cup {f} |-> IF x = f THEN v ELSE r[x]]

\* the first row of the (STUDY_NUMBER, SEMESTER) group of row i: .iloc[0]
GroupFirst(t, i) ==
    CHOOSE j \in Indices(t) :
        /\ t[j].STUDIENR = t[i].STUDIENR
        /\ t[j].SEMESTER = t[i].SEMESTER
        /\ \A k \in 1..(j - 1) :
              ~(t[k].STUDIENR = t[i].STUDIENR /\ t[k].SEMESTER = t[i].SEMESTER)

\* set_semester_grading_dates, for the group of row i
new_date(t, i) ==
    LET first == t[GroupFirst(t, i)]
        year == first.BEDOMMELSESDATO[1]
    IN  IF first.SEMESTER[1] = "Spring"
        THEN <<year, SpringEndMonth, EndDay>>
        ELSE <<year, FallEndMonth, EndDay>>

\* order of two ISO dates (as strings "YYYY-MM-DD")
DateLess(a, b) ==
    \/ a[1] < b[1]
    \/ a[1] = b[1] /\ a[2] < b[2]
    \/ a[1] = b[1] /\ a[2] = b[2] /\ a[3] < b[3]

\* order of two semester labels as strings: "Fall ..." sorts before
\* "Spring ...", equal seasons sort by the year digits
LabelLess(a, b) ==
    \/ a[1] = "Fall" /\ b[1] = "Spring"
    \/ a[1] = b[1] /\ a[2] < b[2]

\* groupby([STUDY_NUMBER, "SEMESTER"]) sorts its groups by key
SemesterGroupLess(t) ==
    {p \in Indices(t) \X Indices(t) :
        \/ t[p[1]].STUDIENR < t[p[2]].STUDIENR
        \/ /\ t[p[1]].STUDIENR = t[p[2]].STUDIENR
           /\ LabelLess(t[p[1]].SEMESTER, t[p[2]].SEMESTER)}

\* sort_values(by=[STUDY_NUMBER, COURSE_NUMBER, "SEMESTER_END"])
SortKeyLess(t) ==
    {p \in Indices(t) \X Indices(t) :
        LET r == t[p[1]]
            q == t[p[2]]
        IN  \/ r.STUDIENR < q.STUDIENR
            \/ r.STUDIENR = q.STUDIENR /\ r.KURSKODE < q.KURSKODE
            \/ /\ r.STUDIENR = q.STUDIENR /\ r.KURSKODE = q.KURSKODE
               /\ DateLess(r.SEMESTER_END, q.SEMESTER_END)}

\* t in the stable order of less, the pairs <<j, i>> of indices whose rows
\* the sort key orders strictly: rows the key does not separate keep their
\* relative order
StableSort(t, less) ==
    LET Before(j, i) == <<j, i>> \in less \/ (<<i, j>> \notin less /\ j < i)
        Rank(i) == 1 + Cardinality({j \in Indices(t) : Before(j, i)})
    IN  [p \in 1..Len(t) |-> t[CHOOSE i \in Indices(t) : Rank(i) = p]]

\* df.groupby([STUDY_NUMBER, "SEMESTER"]).apply(set_semester_grading_dates)
\* followed by reset_index(drop=True).  keyed: the result is the groups in key
\* order (group keys are prepended to the index); otherwise the rows keep
\* the order they had (a like-indexed result is reindexed to the original
\* index).  Which of the two happens depends on the pandas release.
AlignRows(t, keyed) ==
    LET dated == [i \in 1..Len(t) |-> WithColumn(t[i], "SEMESTER_END", new_date(t, i))]
    IN  IF keyed THEN StableSort(dated, SemesterGroupLess(dated)) ELSE dated

\* mutant of cumcount: groupby(STUDY_NUMBER) alone
cumcount_by_student(t, i) ==
    Cardinality({j \in 1..(i - 1) : t[j].STUDIENR = t[i].STUDIENR})

\* groupby([STUDY_NUMBER, COURSE_NUMBER]).cumcount() + 1
cumcount(t, i) ==
    Cardinality({j \in 1..(i - 1) :
        t[j].STUDIENR = t[i].STUDIENR /\ t[j].KURSKODE = t[i].KURSKODE})

AttemptRows(t) == [i \in 1..Len(t) |-> WithColumn(t[i], "ATTEMPT", cumcount(t, i) + 1)]

(* ------------------------------- inputs -------------------------------- *)
TXT_DB == <<"d", "b">>
TXT_NUM_DB == <<"1", " ", "d", "b">>
TXT_INSTITUT == <<"I", "n", "s", "t", "i", "t", "u", "t">>
TXT_ACCENT == <<"i_acute", "n", "s", "t", "i", "t", "u", "t">>

Row(s, u, k, txt, g, e, d) ==
    [STUDIENR |-> s, UDDANNELSE |-> u, KURSKODE |-> k, KURSTXT |-> txt,
     BEDOMMELSE |-> g, ECTS |-> e, BEDOMMELSESDATO |-> d]

\* the rows of a short input file: a base row, varied in a few columns at
\* a time
InputRows ==
    {Row(s, u, 1, TXT_DB, "12", 5, <<1, 6, 2023>>) :
        s \in {1, 2}, u \in {TargetEducation, OtherEducation}}
    \cup {Row(1, TargetEducation, 2, TXT_DB, "12", 5, <<1, 6, 2023>>)}
    \cup {Row(1, TargetEducation, 1, txt, "12", 5, <<1, 6, 2023>>) :
        txt \in {TXT_NUM_DB, TXT_INSTITUT, TXT_ACCENT, NaN}}
    \cup {Row(1, TargetEducation, 2, TXT_DB, "12", 10, <<1, 6, 2023>>),
          Row(1, TargetEducation, 1, TXT_DB, "02", 5, <<1, 6, 2023>>)}
    \cup {Row(1, TargetEducation, 1, TXT_DB, "12", 5, d) :
        d \in {<<15, 1, 2023>>, <<30, 4, 2023>>, <<1, 5, 2023>>, <<30, 9, 2023>>,
               <<1, 10, 2023>>, <<1, 12, 2023>>, <<1, 12, 2022>>}}

\* the rows of a long input file, in which two students can each have more
\* than MinCourses records
CoreRows ==
    {Row(s, TargetEducation, 1, TXT_DB, "12", 5, <<1, 6, 2023>>) : s \in {1, 2}}
    \cup {Row(1, TargetEducation, 2, TXT_DB, "12", 5, <<1, 12, 2023>>),
          Row(1, TargetEducation, 2, TXT_DB, "12", 10, <<1, 12, 2023>>),
          Row(2, OtherEducation, 1, TXT_DB, "12", 5, <<1, 6, 2023>>)}

\* a second student passes the activity filter beside one with MaxRows rows
MaxLongRows == MaxRows + MinCourses + 1

Tables ==
    UNION {[1..n -> InputRows] : n \in 0..MaxRows}
    \cup UNION {[1..n -> CoreRows] : n \in (MaxRows + 1)..MaxLongRows}

NormAlphabet == {"i", "I", "i_acute", "1", "sup2", " "}

Strings == UNION {[1..n -> NormAlphabet] : n \in 0..MaxLen}

(* ------------------------------- pipeline ------------------------------ *)
\* pd.read_csv has run: df is the input table
Init ==
    /\ pc = "cohort"
    /\ df \in Tables
    /\ prev = <<>>
    /\ output = <<>>
    /\ arg = <<>>
    /\ ret = <<>>
    /\ calls = 0

Step(from, to, table) ==
    /\ pc = from
    /\ pc' = to
    /\ df' = table
    /\ prev' = df
    /\ UNCHANGED <<output, arg, ret, calls>>

CohortFilter == Step("cohort", "activity", CohortRows(df))

ActivityFilter == Step("activity", "institute", ActivityRows(df))

InstituteFilter == Step("institute", "normalize", InstituteRows(df))

\* df[COURSE_TEXT].apply(normalize_text): a missing value is a float, and
\* text.upper() raises AttributeError, which ends the run
NormalizeTexts ==
    IF \E i \in Indices(df) : IsNull(df[i].KURSTXT)
    THEN Step("normalize", "aborted", df)
    ELSE Step("normalize", "canonical",
              [i \in 1..Len(df) |-> [df[i] EXCEPT !.KURSTXT = normalize_text(@)]])

Canonicalize ==
    IF duplicate_keys(df) /= {}
    THEN \E mapping \in [duplicate_keys(df) -> {df[i].KURSKODE : i \in Indices(df)}] :
            /\ \A k \in duplicate_keys(df) : mapping[k] \in ModalCodes(df, k)
            /\ Step("canonical", "dates", drop_duplicates(Recode(df, mapping)))
    ELSE Step("canonical", "dates", df)

ConvertDates ==
    Step("dates", "semester",
         [i \in 1..Len(df) |-> [df[i] EXCEPT !.BEDOMMELSESDATO = ToIso(@)]])

AddSemester ==
    Step("semester", "align",
         [i \in 1..Len(df) |->
             WithColumn(df[i], "SEMESTER", get_semester(df[i].BEDOMMELSESDATO))])

AlignSemesterDates ==
    \E keyed \in BOOLEAN : Step("align", "attempt", AlignRows(df, keyed))

AttemptCounter == Step("attempt", "sort", AttemptRows(df))

SortData == Step("sort", "export", StableSort(df, SortKeyLess(df)))

\* df.to_csv(OUTPUT_PATH, index=False)
Export ==
    /\ pc = "export"
    /\ pc' = "done"
    /\ output' = df
    /\ prev' = df
    /\ UNCHANGED <<df, arg, ret, calls>>

Next ==
    \/ CohortFilter
    \/ ActivityFilter
    \/ InstituteFilter
    \/ NormalizeTexts
    \/ Canonicalize
    \/ ConvertDates
    \/ AddSemester
    \/ AlignSemesterDates
    \/ AttemptCounter
    \/ SortData
    \/ Export

Spec == Init /\ [][Next]_vars

(* ----------------------- normalize_text on its own --------------------- *)
InitNormalize ==
    /\ pc = "call"
    /\ df = <<>>
    /\ prev = <<>>
    /\ output = <<>>
    /\ arg \in Strings
    /\ ret = <<>>
    /\ calls = 0

\* ret = normalize_text(arg); the second call is given the first result
CallNormalize ==
    /\ pc = "call"
    /\ calls < 2
    /\ arg' = IF calls = 0 THEN arg ELSE ret
    /\ ret' = normalize_text(arg')
    /\ calls' = calls + 1
    /\ UNCHANGED <<pc, df, prev, output>>

NextNormalize == CallNormalize

SpecNormalize == InitNormalize /\ [][NextNormalize]_vars

(* ------------------------------- claims -------------------------------- *)
RowSet(t) == {t[i] : i \in DOMAIN t}

\* the number of rows of t with this text, these credits and this code
Occurrences(t, txt, e, c) ==
    Cardinality({j \in DOMAIN t :
        t[j].KURSTXT = txt /\ t[j].ECTS = e /\ t[j].KURSKODE = c})

\* the number of rows of t of student s
RowsOf(t, s) == Cardinality({j \in DOMAIN t : t[j].STUDIENR = s})

\* C1: after the canonicalizer every row carries a code that no code of its
\* (course text, credits) group occurred more often than, counted over the
\* rows the stage was given; so rows of equal (course text, credits) carry
\* equal codes.
C1_CanonicalCode ==
    pc = "dates" =>
        /\ \A i \in DOMAIN df : \A j \in DOMAIN prev :
              (prev[j].KURSTXT = df[i].KURSTXT /\ prev[j].ECTS = df[i].ECTS) =>
                  Occurrences(prev, df[i].KURSTXT, df[i].ECTS, prev[j].KURSKODE)
                      <= Occurrences(prev, df[i].KURSTXT, df[i].ECTS, df[i].KURSKODE)
        /\ \A i, j \in DOMAIN df :
              (df[i].KURSTXT = df[j].KURSTXT /\ df[i].ECTS = df[j].ECTS) =>
                  df[i].KURSKODE = df[j].KURSKODE

\* a group with one code three times and another once has ended with the
\* first code alone
C1_Witness ==
    /\ pc = "dates"
    /\ \E j, k \in DOMAIN prev :
          /\ prev[j].KURSTXT = prev[k].KURSTXT /\ prev[j].ECTS = prev[k].ECTS
          /\ Occurrences(prev, prev[j].KURSTXT, prev[j].ECTS, prev[j].KURSKODE) = 3
          /\ Occurrences(prev, prev[k].KURSTXT, prev[k].ECTS, prev[k].KURSKODE) = 1
          /\ \A i \in DOMAIN df :
                (df[i].KURSTXT = prev[j].KURSTXT /\ df[i].ECTS = prev[j].ECTS) =>
                    df[i].KURSKODE = prev[j].KURSKODE
          /\ \E i \in DOMAIN df :
                df[i].KURSTXT = prev[j].KURSTXT /\ df[i].ECTS = prev[j].ECTS

\* C2: every student of the written output has more than 2 rows in it.
C2_ActivityInvariant ==
    pc = "done" =>
        \A i \in DOMAIN output : RowsOf(output, output[i].STUDIENR) > 2

\* C3: normalize_text is idempotent: applied to its own result it returns
\* that result.
C3_Idempotent == calls = 2 => ret = arg

\* C4: no row of the written output has a course text that contains the
\* marker case-insensitively, and the institute filter leaves no student
\* that had such a row in the table it was given.
C4_NoInstituteMarker ==
    /\ pc = "normalize" =>
          \A i \in DOMAIN df : \A j \in DOMAIN prev :
              prev[j].STUDIENR = df[i].STUDIENR => ~str_contains(prev[j].KURSTXT)
    /\ pc = "done" =>
          \A i \in DOMAIN output :
              ~Contains(Upper(output[i].KURSTXT), Upper(Marker))

\* C5: the cohort filter and the activity filter commute: the activity
\* filter applied to the cohort-filtered table (the order of the script)
\* keeps the same set of rows as the cohort filter applied to the
\* activity-filtered input.
C5_Commute ==
    pc = "activity" =>
        RowSet(ActivityRows(df)) = RowSet(CohortRows(ActivityRows(prev)))

\* no student of t has rows in two education programs
SingleProgram(t) ==
    \A i, j \in DOMAIN t :
        t[i].STUDIENR = t[j].STUDIENR => t[i].UDDANNELSE = t[j].UDDANNELSE

\* C5, amended: cohort-then-activity keeps a subset of the rows that
\* activity-then-cohort keeps, and the two orders give the same table when
\* no student has rows in more than one education program.
C5_Amended ==
    pc = "activity" =>
        /\ RowSet(ActivityRows(df)) \subseteq RowSet(CohortRows(ActivityRows(prev)))
        /\ SingleProgram(prev) =>
              ActivityRows(df) = CohortRows(ActivityRows(prev))

\* the cohort filter has removed a student, another student passes both
\* filters, and no student is in two programs
C5_Witness ==
    /\ pc = "activity"
    /\ SingleProgram(prev)
    /\ Len(df) < Len(prev)
    /\ ActivityRows(df) /= <<>>

\* C6: once the semester end dates are set, every row of grading month 5..9
\* is labelled "Spring <year>" and ends on June 1 of the grading year, every
\* other row is labelled "Fall <year>" and ends on December 1 of the grading
\* year, and the rows of one (student, semester label) group carry one date.
C6_SemesterEnd ==
    pc \in {"attempt", "sort", "export", "done"} =>
        \A i \in DOMAIN df :
            LET y == df[i].BEDOMMELSESDATO[1]
                m == df[i].BEDOMMELSESDATO[2]
            IN  /\ m \in 5..9 =>
                      /\ df[i].SEMESTER = <<"Spring", y>>
                      /\ df[i].SEMESTER_END = <<y, 6, 1>>
                /\ m \in (1..4) \cup (10..12) =>
                      /\ df[i].SEMESTER = <<"Fall", y>>
                      /\ df[i].SEMESTER_END = <<y, 12, 1>>
                /\ \A j \in DOMAIN df :
                      (df[j].STUDIENR = df[i].STUDIENR
                          /\ df[j].SEMESTER = df[i].SEMESTER) =>
                          df[j].SEMESTER_END = df[i].SEMESTER_END

\* a row graded 15/01/2023 is written as "Fall 2023" ending 2023-12-01, in
\* one group with a row graded in December 2023
C6_Witness ==
    /\ pc = "done"
    /\ \E i, j \in DOMAIN output :
          /\ output[i].BEDOMMELSESDATO = <<2023, 1, 15>>
          /\ output[i].SEMESTER = <<"Fall", 2023>>
          /\ output[i].SEMESTER_END = <<2023, 12, 1>>
          /\ output[j].BEDOMMELSESDATO = <<2023, 12, 1>>
          /\ output[j].STUDIENR = output[i].STUDIENR
          /\ output[j].SEMESTER = output[i].SEMESTER

\* C7: in the written output the attempt numbers of every (student, course
\* code) group are exactly 1..group size, each once.
C7_AttemptNumbers ==
    pc = "done" =>
        \A i \in DOMAIN output :
            LET group == {j \in DOMAIN output :
                            /\ output[j].STUDIENR = output[i].STUDIENR
                            /\ output[j].KURSKODE = output[i].KURSKODE}
            IN  /\ {output[j].ATTEMPT : j \in group} = 1..Cardinality(group)
                /\ \A j, k \in group :
                      output[j].ATTEMPT = output[k].ATTEMPT => j = k

\* two students are written, one of them with two attempts at one course
\* and a row of another course
C7_Witness ==
    /\ pc = "done"
    /\ \E i, j, k, l \in DOMAIN output :
          /\ i /= j
          /\ output[i].STUDIENR = output[j].STUDIENR
          /\ output[i].KURSKODE = output[j].KURSKODE
          /\ output[k].STUDIENR = output[i].STUDIENR
          /\ output[k].KURSKODE /= output[i].KURSKODE
          /\ output[l].STUDIENR /= output[i].STUDIENR
          /\ output[l].KURSKODE = output[i].KURSKODE

\* C8: a row without course text, of a student who passed the cohort, the
\* activity and the institute filters, does not end the run.
C8_NullTextNoAbort ==
    pc = "aborted" => \A i \in DOMAIN df : ~IsNull(df[i].KURSTXT)

\* C9: after the canonicalizer no two rows of the table are equal in every
\* column, whatever the input.
C9_NoDuplicateRows ==
    pc = "dates" => \A i, j \in DOMAIN df : df[i] = df[j] => i = j

\* C9, amended: when some (course text, credits) group of the table had more
\* than one course code, the canonicalizer leaves no two equal rows;
\* otherwise it leaves the table as it was, equal rows included.
C9_Amended ==
    pc = "dates" =>
        IF \E i, j \in DOMAIN prev :
              /\ prev[i].KURSTXT = prev[j].KURSTXT
              /\ prev[i].ECTS = prev[j].ECTS
              /\ prev[i].KURSKODE /= prev[j].KURSKODE
        THEN \A i, j \in DOMAIN df : df[i] = df[j] => i = j
        ELSE df = prev

\* a group had two codes and a row that became equal to another was dropped
C9_Witness ==
    /\ pc = "dates"
    /\ Len(df) < Len(prev)
    /\ \A i, j \in DOMAIN prev : prev[i] = prev[j] => i = j

\* C10: of two written rows of one (student, course code), the one with the
\* earlier semester end date has the smaller attempt number.
C10_Chronological ==
    pc = "done" =>
        \A i, j \in DOMAIN output :
            (/\ output[i].STUDIENR = output[j].STUDIENR
             /\ output[i].KURSKODE = output[j].KURSKODE
             /\ DateLess(output[i].SEMESTER_END, output[j].SEMESTER_END)) =>
                output[i].ATTEMPT < output[j].ATTEMPT

====
